---- MODULE Spec2Model ----
(***************************************************************************)
(* Model of plugins/eni/engine/engine.go: the execution engine of the ENI  *)
(* plugin.  Each exported operation of the engine is a small state machine *)
(* whose steps are the calls it makes to its collaborators (instance       *)
(* metadata, netlink, namespace wrapper) and the sleeps between them.  The *)
(* collaborators are external: every answer they can give is a             *)
(* nondeterministic choice.                                                *)
(*                                                                         *)
(* Strings that the code takes apart (MAC candidates, metadata responses)  *)
(* are sequences of one-character strings; strings the code only compares  *)
(* or passes on are atoms.                                                 *)
(***************************************************************************)
EXTENDS Integers, Sequences, FiniteSets, TLC

(***************************************************************************)
(* Bounds of the model.                                                    *)
(***************************************************************************)
\* largest non-default tick count the engine is configured with
MaxTicks == 3
\* largest non-default metadata retry count the engine is configured with
MaxRetry == 3
\* longest route listing RouteList returns
MaxRoutes == 2
\* longest candidate list handed to GetMACAddressOfENI
MaxMacs == 3
\* longest metadata response (in characters) for the address lists
MaxResp == 3
\* longest listing of host links LinkList returns
MaxLinks == 3

(***************************************************************************)
(* Program constants (engine.go, const block).                             *)
(***************************************************************************)
metadataNetworkInterfacesPath == "network/interfaces/macs/"
metadataNetworkInterfaceIDPathSuffix == "interface-id"
metadataNetworkInterfaceIPV4AddressesSuffix == "/local-ipv4s"
metadataNetworkInterfaceIPV6AddressesSuffix == "/ipv6s"
ipv6GatewayTickDuration == 1
zeroLengthIPString == "<nil>"
maxTicksForRetrievingIPV6Gateway == 10
instanceMetadataMaxRetryCount == 20
instanceMetadataDurationBetweenRetries == 1

VARIABLES
    engine,             \* the engine struct: counts and durations
    pc,                 \* position of the running call
    args,               \* arguments of the running call
    queries,            \* collaborator queries issued by the running call
    sleeps,             \* time.Sleep calls made by the running call
    blocked,            \* total duration slept by the running call
    log,                \* events of the running call, in order
    result,             \* what the call returned
    numTicks,           \* getIPV6GatewayIPFromRoutes: loop counter
    routes,             \* getIPV6GatewayIPFromRoutesOnce: last listing
    attempts,           \* doesMACAddressMapToIPAddress: attempts
    err,                \* doesMACAddressMapToIPAddress: err
    addressesResponse,  \* doesMACAddressMapToIPAddress: addressesResponse
    idx,                \* GetMACAddressOfENI: position of the range loop
    answer,             \* the last answer of the metadata service
    linkNs,             \* kernel: namespace each device is assigned to
    linkState,          \* kernel: configuration state of each device
    threadNs,           \* namespace each calling thread is in
    nc                  \* Setup/Teardown: call state of each thread

vars == <<engine, pc, args, queries, sleeps, blocked, log, result, numTicks,
          routes, attempts, err, addressesResponse, idx, answer,
          linkNs, linkState, threadNs, nc>>

loopVars == <<numTicks, routes, attempts, err, addressesResponse, idx, answer>>
nsVars == <<linkNs, linkState, threadNs, nc>>

(***************************************************************************)
(* Values.                                                                 *)
(***************************************************************************)
Nil == "nil"
NoArgs == [op |-> "none"]

\* the nil error, and the errors of this package: errors.Wrap keeps the kind
\* and the cause of an error and puts a message in front of its messages
NoErr == [kind |-> "nil", wraps |-> <<>>, cause |-> Nil]
NoResult == [set |-> FALSE, val |-> "", err |-> NoErr]

\* a successful return (value, nil)
Ok(v) == [set |-> TRUE, val |-> v, err |-> NoErr]
\* a failed return: the zero value and an error
Fail(zero, e) == [set |-> TRUE, val |-> zero, err |-> e]
NewError(kind) == [kind |-> kind, wraps |-> <<>>, cause |-> Nil]
Wrap(e, msg) == [kind |-> e.kind, wraps |-> <<msg>> \o e.wraps, cause |-> e.cause]
External(e) == [kind |-> "external", wraps |-> <<>>, cause |-> e]

\* errors the collaborators can return
MetadataErrors == {"imds-timeout", "imds-404"}
NetlinkErrors == {"netlink-error"}

Min(a, b) == IF a < b THEN a ELSE b
Max(a, b) == IF a > b THEN a ELSE b

\* strings.Split(s, sep) for a one-character separator
RECURSIVE Split(_, _)
Split(s, sep) ==
    IF \E i \in 1..Len(s) : s[i] = sep
    THEN LET i == CHOOSE k \in 1..Len(s) :
                      s[k] = sep /\ \A j \in 1..(k - 1) : s[j] # sep
         IN  <<SubSeq(s, 1, i - 1)>> \o Split(SubSeq(s, i + 1, Len(s)), sep)
    ELSE <<s>>

\* all sequences over S of length at most n
RECURSIVE SeqsUpTo(_, _)
SeqsUpTo(S, n) ==
    IF n = 0 THEN {<<>>}
    ELSE LET shorter == SeqsUpTo(S, n - 1)
         IN  shorter \cup {Append(s, x) : s \in shorter, x \in S}

(***************************************************************************)
(* The engine struct, as create() builds it; the counts are also the       *)
(* parameters the package's callers substitute.                            *)
(***************************************************************************)
TickCounts == (-1..MaxTicks) \cup {maxTicksForRetrievingIPV6Gateway}
RetryCounts == (-1..MaxRetry) \cup {instanceMetadataMaxRetryCount}

create(ticks, retries) ==
    [ipv6GatewayTickDuration |-> ipv6GatewayTickDuration,
     maxTicksForRetrievingIPV6Gateway |-> ticks,
     metadataMaxRetryCount |-> retries,
     metadataDurationBetweenRetries |-> instanceMetadataDurationBetweenRetries]

New == create(maxTicksForRetrievingIPV6Gateway, instanceMetadataMaxRetryCount)

(***************************************************************************)
(* GetIPV6Gateway: poll the route table of the device for a default route. *)
(***************************************************************************)
DeviceNames == {"eth1"}

\* net.IP values: the IP of length 0 and two addresses
NoIP == 0
IPs == {NoIP, 1, 2}
\* net.IP.String()
IPString(ip) ==
    IF ip = NoIP THEN "<nil>" ELSE IF ip = 1 THEN "fe80::1" ELSE "fe80::2"

\* *net.IPNet values: the nil pointer and a prefix
NilNet == 0
IPNets == {NilNet, 1}
\* (*net.IPNet).String()
IPNetString(dst) == IF dst = NilNet THEN "<nil>" ELSE "2001:db8::/64"

\* netlink.Route: Dst is a *net.IPNet, Src and Gw are net.IP
Routes == [Dst : IPNets, Src : {NoIP, 2}, Gw : IPs]
RouteLists == SeqsUpTo(Routes, MaxRoutes)

\* the condition of the if statement without its test of the source
IsDefaultRouteIgnoresSrc(route) ==
    /\ (route.Dst = NilNet \/ IPNetString(route.Dst) = zeroLengthIPString)
    /\ IPString(route.Gw) # zeroLengthIPString

\* the condition of the if statement in the route loop
IsDefaultRoute(route) ==
    /\ (route.Dst = NilNet \/ IPNetString(route.Dst) = zeroLengthIPString)
    /\ IPString(route.Src) = zeroLengthIPString
    /\ IPString(route.Gw) # zeroLengthIPString

\* the route loop of getIPV6GatewayIPFromRoutesOnce over a listing: routes
\* with a destination are skipped, the first default route is returned
RECURSIVE ScanRoutes(_)
ScanRoutes(rs) ==
    IF rs = <<>> THEN [gateway |-> "", ok |-> FALSE]
    ELSE IF Head(rs).Dst # NilNet THEN ScanRoutes(Tail(rs))
    ELSE IF IsDefaultRoute(Head(rs))
         THEN [gateway |-> IPString(Head(rs).Gw), ok |-> TRUE]
         ELSE ScanRoutes(Tail(rs))

\* getIPV6GatewayIPFromRoutesOnce: listing is a RouteList answer, either an
\* error or a list of routes
getIPV6GatewayIPFromRoutesOnce(listing) ==
    IF listing.err # Nil
    THEN [gateway |-> "", ok |-> FALSE,
          err |-> Wrap(External(listing.err), "unable to get ipv6 routes")]
    ELSE [gateway |-> ScanRoutes(listing.routes).gateway,
          ok |-> ScanRoutes(listing.routes).ok,
          err |-> NoErr]

RouteListAnswers ==
    {[err |-> e, routes |-> <<>>] : e \in NetlinkErrors}
        \cup {[err |-> Nil, routes |-> rs] : rs \in RouteLists}

\* the loop condition with an inclusive comparison
MoreTicksInclusive(ticks, maxTicks) == ticks <= maxTicks

\* the condition of the for loop
MoreTicks(ticks, maxTicks) == ticks < maxTicks

\* GetIPV6Gateway up to the loop: LinkByName, then the loop is entered
GetIPV6Gateway ==
    /\ pc = "idle"
    /\ \E deviceName \in DeviceNames, linkErr \in NetlinkErrors \cup {Nil} :
         /\ args' = [op |-> "GetIPV6Gateway", deviceName |-> deviceName,
                     maxTicks |-> engine.maxTicksForRetrievingIPV6Gateway,
                     durationBetweenTicks |-> engine.ipv6GatewayTickDuration]
         /\ IF linkErr # Nil
            THEN /\ pc' = "done"
                 /\ result' = Fail("", Wrap(External(linkErr), "unable to get link"))
                 /\ log' = <<<<"LinkByName", "err">>>>
            ELSE /\ pc' = "gw_loop"
                 /\ result' = result
                 /\ log' = <<<<"LinkByName", "ok">>>>
    /\ numTicks' = 0
    /\ UNCHANGED <<engine, queries, sleeps, blocked, routes, attempts, err,
                   addressesResponse, idx, answer, nsVars>>

\* the iteration with the sleep left out after the last attempt
GatewayTickNoFinalSleep ==
    /\ pc = "gw_loop"
    /\ MoreTicks(numTicks, args.maxTicks)
    /\ \E listing \in RouteListAnswers :
         LET once == getIPV6GatewayIPFromRoutesOnce(listing) IN
         /\ queries' = queries + 1
         /\ routes' = listing.routes
         /\ IF once.err # NoErr
            THEN /\ pc' = "done"
                 /\ result' = Fail("", once.err)
                 /\ log' = Append(log, <<"RouteList", "err">>)
                 /\ numTicks' = numTicks
            ELSE IF once.ok
            THEN /\ pc' = "done"
                 /\ result' = Ok(once.gateway)
                 /\ log' = Append(log, <<"RouteList", "default">>)
                 /\ numTicks' = numTicks
            ELSE /\ result' = result
                 /\ log' = Append(log, <<"RouteList", "none">>)
                 /\ IF MoreTicks(numTicks + 1, args.maxTicks)
                    THEN pc' = "gw_sleep" /\ numTicks' = numTicks
                    ELSE pc' = "gw_loop" /\ numTicks' = numTicks + 1
    /\ UNCHANGED <<engine, args, sleeps, blocked, attempts, err,
                   addressesResponse, idx, answer, nsVars>>

\* the iteration without the return on a default route
GatewayTickNoShortCircuit ==
    /\ pc = "gw_loop"
    /\ MoreTicks(numTicks, args.maxTicks)
    /\ \E listing \in RouteListAnswers :
         LET once == getIPV6GatewayIPFromRoutesOnce(listing) IN
         /\ queries' = queries + 1
         /\ routes' = listing.routes
         /\ IF once.err # NoErr
            THEN /\ pc' = "done"
                 /\ result' = Fail("", once.err)
                 /\ log' = Append(log, <<"RouteList", "err">>)
            ELSE /\ pc' = "gw_sleep"
                 /\ result' = IF once.ok THEN Ok(once.gateway) ELSE result
                 /\ log' = Append(log, <<"RouteList",
                                         IF once.ok THEN "default" ELSE "none">>)
    /\ UNCHANGED <<engine, args, sleeps, blocked, numTicks, attempts, err,
                   addressesResponse, idx, answer, nsVars>>

\* the iteration with a failed query treated as a listing without a
\* default route
GatewayTickRetriesError ==
    /\ pc = "gw_loop"
    /\ MoreTicks(numTicks, args.maxTicks)
    /\ \E listing \in RouteListAnswers :
         LET once == getIPV6GatewayIPFromRoutesOnce(listing) IN
         /\ queries' = queries + 1
         /\ routes' = listing.routes
         /\ IF once.err = NoErr /\ once.ok
            THEN /\ pc' = "done"
                 /\ result' = Ok(once.gateway)
                 /\ log' = Append(log, <<"RouteList", "default">>)
            ELSE /\ pc' = "gw_sleep"
                 /\ result' = result
                 /\ log' = Append(log, <<"RouteList",
                                IF once.err # NoErr THEN "err" ELSE "none">>)
    /\ UNCHANGED <<engine, args, sleeps, blocked, numTicks, attempts, err,
                   addressesResponse, idx, answer, nsVars>>

\* one iteration of the loop up to the sleep: the query and the two returns
GatewayTick ==
    /\ pc = "gw_loop"
    /\ MoreTicks(numTicks, args.maxTicks)
    /\ \E listing \in RouteListAnswers :
         LET once == getIPV6GatewayIPFromRoutesOnce(listing) IN
         /\ queries' = queries + 1
         /\ routes' = listing.routes
         /\ IF once.err # NoErr
            THEN /\ pc' = "done"
                 /\ result' = Fail("", once.err)
                 /\ log' = Append(log, <<"RouteList", "err">>)
            ELSE IF once.ok
            THEN /\ pc' = "done"
                 /\ result' = Ok(once.gateway)
                 /\ log' = Append(log, <<"RouteList", "default">>)
            ELSE /\ pc' = "gw_sleep"
                 /\ result' = result
                 /\ log' = Append(log, <<"RouteList", "none">>)
    /\ UNCHANGED <<engine, args, sleeps, blocked, numTicks, attempts, err,
                   addressesResponse, idx, answer, nsVars>>

\* time.Sleep(durationBetweenTicks) without the loop's post statement
GatewaySleepNoPostStatement ==
    /\ pc = "gw_sleep"
    /\ routes' = <<>>
    /\ sleeps' = sleeps + 1
    /\ blocked' = blocked + args.durationBetweenTicks
    /\ log' = Append(log, <<"Sleep", "">>)
    /\ numTicks' = numTicks
    /\ pc' = "gw_loop"
    /\ UNCHANGED <<engine, args, queries, result, attempts, err,
                   addressesResponse, idx, answer, nsVars>>

\* time.Sleep(durationBetweenTicks) and the loop's post statement; the
\* listing of the iteration is gone with it
GatewaySleep ==
    /\ pc = "gw_sleep"
    /\ routes' = <<>>
    /\ sleeps' = sleeps + 1
    /\ blocked' = blocked + args.durationBetweenTicks
    /\ log' = Append(log, <<"Sleep", "">>)
    /\ numTicks' = numTicks + 1
    /\ pc' = "gw_loop"
    /\ UNCHANGED <<engine, args, queries, result, attempts, err,
                   addressesResponse, idx, answer, nsVars>>

\* the loop condition fails: the error after the loop
GatewayGiveUp ==
    /\ pc = "gw_loop"
    /\ ~MoreTicks(numTicks, args.maxTicks)
    /\ pc' = "done"
    /\ result' = Fail("", NewError("GatewayNotFound"))
    /\ UNCHANGED <<engine, args, queries, sleeps, blocked, log, loopVars, nsVars>>

(***************************************************************************)
(* DoesMACAddressMapToIPV4Address / DoesMACAddressMapToIPV6Address: query  *)
(* the address list of the MAC from instance metadata, retrying failures.  *)
(***************************************************************************)
MacAddresses == {"0a:1b"}
\* addresses looked for and the characters of a response
AddressesToFind == {<<>>, <<"a">>, <<"a", "b">>}
Responses == SeqsUpTo({"a", "b", "\n"}, MaxResp)

\* the path handed to GetMetadata: the concatenation of its three parts
MetadataPath(macAddress, suffix) ==
    <<metadataNetworkInterfacesPath, macAddress, suffix>>

\* the loop over strings.Split(addressesResponse, "\n")
AddressListed(response, addressToFind) ==
    \E i \in 1..Len(Split(response, "\n")) :
        Split(response, "\n")[i] = addressToFind

\* the message each exported wrapper puts in front of the error
MapWrapMessage(op) ==
    IF op = "DoesMACAddressMapToIPV4Address"
    THEN "unable to get ipv4 addresses from instance metadata"
    ELSE "unable to get ipv6 addresses from instance metadata"

\* the condition that ends the retries, with a strict comparison
AttemptsExhaustedStrict(n, maxRetryCount) == n > maxRetryCount

\* the condition that ends the retries, with a test for equality
AttemptsExhaustedExact(n, maxRetryCount) == n = maxRetryCount

\* the condition that ends the retries
AttemptsExhausted(n, maxRetryCount) == n >= maxRetryCount

\* entry of either exported wrapper: attempts := 1
DoesMACAddressMapToIPAddress(op, suffix) ==
    /\ pc = "idle"
    /\ \E macAddress \in MacAddresses, addressToFind \in AddressesToFind :
         args' = [op |-> op, macAddress |-> macAddress,
                  addressToFind |-> addressToFind,
                  path |-> MetadataPath(macAddress, suffix)]
    /\ attempts' = 1
    /\ pc' = "map_query"
    /\ UNCHANGED <<engine, queries, sleeps, blocked, log, result, numTicks,
                   routes, err, addressesResponse, idx, answer, nsVars>>

DoesMACAddressMapToIPV4Address ==
    DoesMACAddressMapToIPAddress("DoesMACAddressMapToIPV4Address",
                                 metadataNetworkInterfaceIPV4AddressesSuffix)

DoesMACAddressMapToIPV6Address ==
    DoesMACAddressMapToIPAddress("DoesMACAddressMapToIPV6Address",
                                 metadataNetworkInterfaceIPV6AddressesSuffix)

\* the query answered, with another attempt made when the response does not
\* list the address
MapQueryOkRetriesWhenMissing ==
    /\ pc = "map_query"
    /\ \E response \in Responses :
         /\ addressesResponse' = response
         /\ err' = Nil
         /\ answer' = "ok"
         /\ queries' = queries + 1
         /\ log' = Append(log, <<"GetMetadata", "ok">>)
         /\ IF \/ AddressListed(response, args.addressToFind)
               \/ AttemptsExhausted(attempts, engine.metadataMaxRetryCount)
            THEN /\ result' = Ok(AddressListed(response, args.addressToFind))
                 /\ pc' = "done"
                 /\ attempts' = attempts
            ELSE /\ result' = result
                 /\ pc' = "map_sleep"
                 /\ attempts' = attempts + 1
    /\ UNCHANGED <<engine, args, sleeps, blocked, numTicks, routes,
                   idx, nsVars>>

\* the query answered: leave the loop and search the response
MapQueryOk ==
    /\ pc = "map_query"
    /\ \E response \in Responses :
         /\ addressesResponse' = response
         /\ err' = Nil
         /\ answer' = "ok"
         /\ queries' = queries + 1
         /\ log' = Append(log, <<"GetMetadata", "ok">>)
         /\ result' = Ok(AddressListed(response, args.addressToFind))
    /\ pc' = "done"
    /\ UNCHANGED <<engine, args, sleeps, blocked, numTicks, routes, attempts,
                   idx, nsVars>>

\* the query failed: give up when the attempts are used up, else count the
\* attempt and go to sleep
MapQueryFail ==
    /\ pc = "map_query"
    /\ \E e \in MetadataErrors :
         /\ err' = e
         /\ answer' = e
         /\ queries' = queries + 1
         /\ log' = Append(log, <<"GetMetadata", "err">>)
         /\ IF AttemptsExhausted(attempts, engine.metadataMaxRetryCount)
            THEN /\ pc' = "done"
                 /\ attempts' = attempts
                 /\ result' = Fail(FALSE,
                        Wrap(Wrap(External(err'), "querying metadata path"),
                             MapWrapMessage(args.op)))
            ELSE /\ pc' = "map_sleep"
                 /\ attempts' = attempts + 1
                 /\ result' = result
    /\ UNCHANGED <<engine, args, sleeps, blocked, numTicks, routes,
                   addressesResponse, idx, nsVars>>

\* time.Sleep(engine.metadataDurationBetweenRetries)
MapSleep ==
    /\ pc = "map_sleep"
    /\ sleeps' = sleeps + 1
    /\ blocked' = blocked + engine.metadataDurationBetweenRetries
    /\ log' = Append(log, <<"Sleep", "">>)
    /\ pc' = "map_query"
    /\ UNCHANGED <<engine, args, queries, result, loopVars, nsVars>>

(***************************************************************************)
(* GetMACAddressOfENI: scan the candidates for the one of the ENI.         *)
(***************************************************************************)
ENIIDs == {"eni-1", "eni-2"}
\* candidates as GetAllMACAddresses splits them off the metadata listing: a
\* MAC, with or without the '/' that ends each line of the listing, or the
\* empty string after a final newline
MacBodies == {<<"a">>, <<"b">>}
MacCandidates == MacBodies \cup {Append(m, "/") : m \in MacBodies} \cup {<<>>}
CandidateLists == SeqsUpTo(MacCandidates, MaxMacs)

\* the candidate returned as it is
StripMACKeepsSlash(macAddress) == macAddress

\* strings.Split(macAddress, "/")[0]
StripMAC(macAddress) == Split(macAddress, "/")[1]

\* what the metadata service answers to the interface-id query of a
\* candidate: an ENI id or an error; the answers of a call are fixed, one
\* per position of the candidate list, when the call starts
InterfaceIDAnswers == ENIIDs \cup MetadataErrors

GetMACAddressOfENI ==
    /\ pc = "idle"
    /\ \E macAddresses \in CandidateLists, eniID \in ENIIDs :
       \E interfaceIDs \in [1..Len(macAddresses) -> InterfaceIDAnswers] :
         args' = [op |-> "GetMACAddressOfENI",
                  macAddresses |-> macAddresses, eniID |-> eniID,
                  interfaceIDs |-> interfaceIDs]
    /\ idx' = 1
    /\ pc' = "eni_scan"
    /\ UNCHANGED <<engine, queries, sleeps, blocked, log, result, numTicks,
                   routes, attempts, err, addressesResponse, answer, nsVars>>

\* the iteration with a failed query returned as the error of the call
EniQueryFatal ==
    /\ pc = "eni_scan"
    /\ idx <= Len(args.macAddresses)
    /\ LET macAddress == args.macAddresses[idx]
           interfaceID == args.interfaceIDs[idx] IN
         /\ queries' = queries + 1
         /\ answer' = interfaceID
         /\ log' = Append(log, <<"GetMetadata", interfaceID, macAddress>>)
         /\ IF interfaceID \in MetadataErrors
            THEN /\ pc' = "done"
                 /\ idx' = idx
                 /\ result' = Fail(<<>>, Wrap(External(interfaceID),
                                              "unable to get interface id"))
            ELSE IF interfaceID = args.eniID
            THEN /\ pc' = "done"
                 /\ idx' = idx
                 /\ result' = Ok(StripMAC(macAddress))
            ELSE /\ pc' = "eni_scan"
                 /\ idx' = idx + 1
                 /\ result' = result
    /\ UNCHANGED <<engine, args, sleeps, blocked, numTicks, routes, attempts,
                   err, addressesResponse, nsVars>>

\* the iteration with the scan carried on to the end of the list after a
\* match, the first match being returned there
EniQueryScansAll ==
    /\ pc = "eni_scan"
    /\ idx <= Len(args.macAddresses)
    /\ LET macAddress == args.macAddresses[idx]
           interfaceID == args.interfaceIDs[idx]
           found == IF result.set THEN result
                    ELSE IF interfaceID = args.eniID
                    THEN Ok(StripMAC(macAddress)) ELSE result IN
         /\ queries' = queries + 1
         /\ answer' = interfaceID
         /\ log' = Append(log, <<"GetMetadata", interfaceID, macAddress>>)
         /\ result' = found
         /\ IF found.set /\ idx = Len(args.macAddresses)
            THEN pc' = "done" /\ idx' = idx
            ELSE pc' = "eni_scan" /\ idx' = idx + 1
    /\ UNCHANGED <<engine, args, sleeps, blocked, numTicks, routes, attempts,
                   err, addressesResponse, nsVars>>

\* one iteration of the range loop: the interface-id query of a candidate
EniQuery ==
    /\ pc = "eni_scan"
    /\ idx <= Len(args.macAddresses)
    /\ LET macAddress == args.macAddresses[idx]
           interfaceID == args.interfaceIDs[idx] IN
         /\ queries' = queries + 1
         /\ answer' = interfaceID
         /\ log' = Append(log, <<"GetMetadata", interfaceID, macAddress>>)
         /\ IF interfaceID \in MetadataErrors
            THEN /\ pc' = "eni_scan"
                 /\ idx' = idx + 1
                 /\ result' = result
            ELSE IF interfaceID = args.eniID
            THEN /\ pc' = "done"
                 /\ idx' = idx
                 /\ result' = Ok(StripMAC(macAddress))
            ELSE /\ pc' = "eni_scan"
                 /\ idx' = idx + 1
                 /\ result' = result
    /\ UNCHANGED <<engine, args, sleeps, blocked, numTicks, routes, attempts,
                   err, addressesResponse, nsVars>>

\* the range loop ran out of candidates
EniUnmapped ==
    /\ pc = "eni_scan"
    /\ idx > Len(args.macAddresses)
    /\ pc' = "done"
    /\ result' = Fail(<<>>, NewError("UnmappedMACAddress"))
    /\ UNCHANGED <<engine, args, queries, sleeps, blocked, log, loopVars, nsVars>>

(***************************************************************************)
(* GetInterfaceDeviceName: the name of the host link with a MAC address.   *)
(***************************************************************************)
\* MAC address strings callers pass: three spellings of one address, two
\* other addresses, and strings net.ParseMAC rejects (among them a MAC with
\* the '/' of the metadata listing)
MacStrings == {"0a:1b", "0A:1B", "0a-1b", "0a:2c", "0a:3d", "0a:1b/", ""}

\* net.HardwareAddr values, as numbers; 0 is the nil address
NoHardwareAddr == 0
HardwareAddrs == {1, 2, 3}

\* net.ParseMAC: the address and a nil error, or an error
ParseMAC(macAddress) ==
    IF macAddress \in {"0a:1b", "0A:1B", "0a-1b"} THEN [hw |-> 1, err |-> Nil]
    ELSE IF macAddress = "0a:2c" THEN [hw |-> 2, err |-> Nil]
    ELSE IF macAddress = "0a:3d" THEN [hw |-> 3, err |-> Nil]
    ELSE [hw |-> NoHardwareAddr, err |-> "invalid MAC address"]

\* netlink.Link values of a listing: link.Attrs().Name and
\* link.Attrs().HardwareAddr
LinkNames == {"eth0", "eth1", "eth1.5"}
Links == [Name : LinkNames, HardwareAddr : {1, 2}]
LinkLists == SeqsUpTo(Links, MaxLinks)

\* getLinkByHardwareAddress over the links LinkList enumerates: the first
\* link with the hardware address, or the device-not-found error
RECURSIVE getLinkByHardwareAddress(_, _)
getLinkByHardwareAddress(links, hardwareAddr) ==
    IF links = <<>>
    THEN [found |-> FALSE, link |-> [Name |-> "", HardwareAddr |-> NoHardwareAddr],
          err |-> NewError("DeviceNotFound")]
    ELSE IF Head(links).HardwareAddr = hardwareAddr
    THEN [found |-> TRUE, link |-> Head(links), err |-> NoErr]
    ELSE getLinkByHardwareAddress(Tail(links), hardwareAddr)

\* the return values with the error of net.ParseMAC dropped
InterfaceDeviceNameIgnoresParseError(macAddress, links) ==
    LET parsed == ParseMAC(macAddress)
        lookup == getLinkByHardwareAddress(links, parsed.hw)
    IN  IF lookup.err # NoErr
        THEN Fail("", Wrap(lookup.err,
                           "unable to get device with hardware address"))
        ELSE Ok(lookup.link.Name)

\* the return values of GetInterfaceDeviceName for a MAC address string and
\* the links of the host
InterfaceDeviceName(macAddress, links) ==
    LET parsed == ParseMAC(macAddress)
        lookup == getLinkByHardwareAddress(links, parsed.hw)
    IN  IF parsed.err # Nil
        THEN Fail("", Wrap(External(parsed.err),
                           "malformatted mac address specified"))
        ELSE IF lookup.err # NoErr
        THEN Fail("", Wrap(lookup.err,
                           "unable to get device with hardware address"))
        ELSE Ok(lookup.link.Name)

\* the collaborator calls GetInterfaceDeviceName makes for a MAC address
\* string: the links are enumerated only when the address parses
InterfaceDeviceNameCalls(macAddress) ==
    IF ParseMAC(macAddress).err # Nil
    THEN <<<<"ParseMAC", "err">>>>
    ELSE <<<<"ParseMAC", "ok">>, <<"LinkList", "ok">>>>

GetInterfaceDeviceName ==
    /\ pc = "idle"
    /\ \E macAddress \in MacStrings, links \in LinkLists :
         /\ args' = [op |-> "GetInterfaceDeviceName",
                     macAddress |-> macAddress, links |-> links]
         /\ result' = InterfaceDeviceName(macAddress, links)
         /\ log' = InterfaceDeviceNameCalls(macAddress)
         /\ queries' = Len(InterfaceDeviceNameCalls(macAddress)) - 1
    /\ pc' = "done"
    /\ UNCHANGED <<engine, sleeps, blocked, loopVars, nsVars>>

(***************************************************************************)
(* SetupContainerNamespace / TeardownContainerNamespace.  The kernel keeps *)
(* the namespace of each device; each calling thread is in one namespace.  *)
(* netlink calls act on the namespace the calling thread is in.            *)
(***************************************************************************)
HostNS == "host"
Devices == {"eth1", "eth2"}
MacOf(device) == IF device = "eth1" THEN "0a:1b" ELSE "0a:2c"
\* the order in which the kernel enumerates the devices
DeviceOrder == <<"eth1", "eth2">>
\* device names and namespace paths callers pass; "eth9" names no device and
\* "/ns/none" no namespace
SetupDeviceNames == Devices \cup {"eth9"}
NetnsPaths == {"/ns/c1", "/ns/c2", "/ns/none"}
NsOfPath(path) ==
    IF path = "/ns/c1" THEN "c1" ELSE IF path = "/ns/c2" THEN "c2" ELSE Nil

IdleCall == [pc |-> "idle", op |-> "none", deviceName |-> "", netns |-> "",
             macAddress |-> "", origNs |-> "", containerNS |-> Nil,
             scoped |-> FALSE, closure |-> "none", execErr |-> Nil,
             calls |-> <<>>, closures |-> <<>>, result |-> NoResult]

\* a collaborator call of thread t, with its outcome and the namespace the
\* thread was in when it made the call
Called(t, name, outcome) == <<name, outcome, threadNs[t]>>

\* the answers LinkByName can give in the namespace the thread is in
LinkByNameAnswers(t, deviceName) ==
    IF deviceName \in Devices /\ linkNs[deviceName] = threadNs[t]
    THEN {Nil} \cup NetlinkErrors
    ELSE {"link-not-found"}

\* the links LinkList enumerates in the namespace thread t is in
RECURSIVE LinksIn(_, _)
LinksIn(ns, devices) ==
    IF devices = <<>> THEN <<>>
    ELSE (IF linkNs[Head(devices)] = ns
          THEN <<[Name |-> Head(devices),
                  HardwareAddr |-> ParseMAC(MacOf(Head(devices))).hw]>>
          ELSE <<>>) \o LinksIn(ns, Tail(devices))
HostLinks(t) == LinksIn(threadNs[t], DeviceOrder)

\* GetInterfaceDeviceName called on thread t, over the links of the kernel
GetInterfaceDeviceNameOn(t) ==
    /\ nc[t].pc = "idle"
    /\ \E macAddress \in MacStrings :
         nc' = [nc EXCEPT ![t] =
            [IdleCall EXCEPT
               !.pc = "done",
               !.op = "GetInterfaceDeviceName",
               !.macAddress = macAddress,
               !.origNs = threadNs[t],
               !.calls = [i \in 1..Len(InterfaceDeviceNameCalls(macAddress)) |->
                            Called(t, InterfaceDeviceNameCalls(macAddress)[i][1],
                                      InterfaceDeviceNameCalls(macAddress)[i][2])],
               !.result = InterfaceDeviceName(macAddress, HostLinks(t))]]
    /\ UNCHANGED <<engine, pc, args, queries, sleeps, blocked, log, result,
                   loopVars, linkNs, linkState, threadNs>>

\* step 1, engine.netLink.LinkByName(deviceName)
SetupContainerNamespace(t) ==
    /\ nc[t].pc = "idle"
    /\ \E deviceName \in SetupDeviceNames, netns \in NetnsPaths,
          e \in NetlinkErrors \cup {Nil, "link-not-found"} :
         /\ e \in LinkByNameAnswers(t, deviceName)
         /\ LET c == [IdleCall EXCEPT
                        !.op = "SetupContainerNamespace",
                        !.deviceName = deviceName,
                        !.netns = netns,
                        !.macAddress = IF deviceName \in Devices
                                       THEN MacOf(deviceName) ELSE "0a:ff",
                        !.origNs = threadNs[t],
                        !.calls = <<Called(t, "LinkByName",
                                           IF e = Nil THEN "ok" ELSE "err")>>]
            IN nc' = [nc EXCEPT ![t] =
                 IF e # Nil
                 THEN [c EXCEPT !.pc = "done",
                         !.result = Fail("", Wrap(External(e), "unable to get link"))]
                 ELSE [c EXCEPT !.pc = "setup_getns"]]
    /\ UNCHANGED <<engine, pc, args, queries, sleeps, blocked, log, result,
                   loopVars, linkNs, linkState, threadNs>>

\* step 2 with the error of GetNS dropped
SetupGetNSIgnoresError(t) ==
    /\ nc[t].pc = "setup_getns"
    /\ \E e \in {Nil, "ns-error"} :
         /\ e = Nil => NsOfPath(nc[t].netns) # Nil
         /\ nc' = [nc EXCEPT ![t] =
              [@ EXCEPT !.pc = "setup_move",
                 !.calls = Append(@, Called(t, "GetNS",
                                            IF e = Nil THEN "ok" ELSE "err")),
                 !.containerNS = IF e = Nil THEN NsOfPath(nc[t].netns)
                                 ELSE Nil]]
    /\ UNCHANGED <<engine, pc, args, queries, sleeps, blocked, log, result,
                   loopVars, linkNs, linkState, threadNs>>

\* step 2, engine.ns.GetNS(args.Netns)
SetupGetNS(t) ==
    /\ nc[t].pc = "setup_getns"
    /\ \E e \in {Nil, "ns-error"} :
         /\ e = Nil => NsOfPath(nc[t].netns) # Nil
         /\ nc' = [nc EXCEPT ![t] =
              IF e # Nil
              THEN [@ EXCEPT !.pc = "done",
                      !.calls = Append(@, Called(t, "GetNS", "err")),
                      !.result = Fail("", Wrap(External(e),
                                      "unable to get network namespace"))]
              ELSE [@ EXCEPT !.pc = "setup_move",
                      !.calls = Append(@, Called(t, "GetNS", "ok")),
                      !.containerNS = NsOfPath(nc[t].netns)]]
    /\ UNCHANGED <<engine, pc, args, queries, sleeps, blocked, log, result,
                   loopVars, linkNs, linkState, threadNs>>

\* step 3 with the error of LinkSetNsFd dropped
SetupLinkSetNsFdIgnoresError(t) ==
    /\ nc[t].pc = "setup_move"
    /\ \E e \in NetlinkErrors \cup {Nil} :
         /\ nc' = [nc EXCEPT ![t] =
              [@ EXCEPT !.pc = "setup_closure",
                 !.calls = Append(@, Called(t, "LinkSetNsFd",
                                            IF e = Nil THEN "ok" ELSE "err"))]]
         /\ linkNs' = IF e = Nil
                      THEN [linkNs EXCEPT ![nc[t].deviceName] = nc[t].containerNS]
                      ELSE linkNs
    /\ UNCHANGED <<engine, pc, args, queries, sleeps, blocked, log, result,
                   loopVars, linkState, threadNs>>

\* step 3 moving every link of the caller's namespace, not only eniLink
SetupLinkSetNsFdMovesAllLinks(t) ==
    /\ nc[t].pc = "setup_move"
    /\ \E e \in NetlinkErrors \cup {Nil} :
         IF e # Nil
         THEN /\ nc' = [nc EXCEPT ![t] =
                   [@ EXCEPT !.pc = "done",
                      !.calls = Append(@, Called(t, "LinkSetNsFd", "err")),
                      !.result = Fail("", Wrap(External(e),
                                      "unable to move device"))]]
              /\ linkNs' = linkNs
         ELSE /\ nc' = [nc EXCEPT ![t] =
                   [@ EXCEPT !.pc = "setup_closure",
                      !.calls = Append(@, Called(t, "LinkSetNsFd", "ok"))]]
              /\ linkNs' = [d \in Devices |->
                              IF linkNs[d] = threadNs[t]
                              THEN nc[t].containerNS ELSE linkNs[d]]
    /\ UNCHANGED <<engine, pc, args, queries, sleeps, blocked, log, result,
                   loopVars, linkState, threadNs>>

\* step 3, engine.netLink.LinkSetNsFd(eniLink, containerNS.Fd())
SetupLinkSetNsFd(t) ==
    /\ nc[t].pc = "setup_move"
    /\ \E e \in NetlinkErrors \cup {Nil} :
         IF e # Nil
         THEN /\ nc' = [nc EXCEPT ![t] =
                   [@ EXCEPT !.pc = "done",
                      !.calls = Append(@, Called(t, "LinkSetNsFd", "err")),
                      !.result = Fail("", Wrap(External(e),
                                      "unable to move device"))]]
              /\ linkNs' = linkNs
         ELSE /\ nc' = [nc EXCEPT ![t] =
                   [@ EXCEPT !.pc = "setup_closure",
                      !.calls = Append(@, Called(t, "LinkSetNsFd", "ok"))]]
              /\ linkNs' = [linkNs EXCEPT ![nc[t].deviceName] = nc[t].containerNS]
    /\ UNCHANGED <<engine, pc, args, queries, sleeps, blocked, log, result,
                   loopVars, linkState, threadNs>>

\* step 4 followed by a direct call of toRun.run, outside WithNetNSPath
SetupNewClosureRunsDirectly(t) ==
    /\ nc[t].pc = "setup_closure"
    /\ \E e \in {Nil, "closure-error"} :
         nc' = [nc EXCEPT ![t] =
              IF e # Nil
              THEN [@ EXCEPT !.pc = "done",
                      !.calls = Append(@, Called(t, "newSetupNamespaceClosureContext", "err")),
                      !.result = Fail("", Wrap(External(e),
                                      "unable to create closure"))]
              ELSE [@ EXCEPT !.pc = "in_ns",
                      !.closure = "setup",
                      !.calls = Append(@, Called(t, "newSetupNamespaceClosureContext", "ok"))]]
    /\ UNCHANGED <<engine, pc, args, queries, sleeps, blocked, log, result,
                   loopVars, linkNs, linkState, threadNs>>

\* step 4 with the link moved back to the caller's namespace when the
\* construction fails
SetupNewClosureRollsBack(t) ==
    /\ nc[t].pc = "setup_closure"
    /\ \E e \in {Nil, "closure-error"} :
         /\ nc' = [nc EXCEPT ![t] =
              IF e # Nil
              THEN [@ EXCEPT !.pc = "done",
                      !.calls = Append(@, Called(t, "newSetupNamespaceClosureContext", "err")),
                      !.result = Fail("", Wrap(External(e),
                                      "unable to create closure"))]
              ELSE [@ EXCEPT !.pc = "exec",
                      !.closure = "setup",
                      !.calls = Append(@, Called(t, "newSetupNamespaceClosureContext", "ok"))]]
         /\ linkNs' = IF e # Nil
                      THEN [linkNs EXCEPT ![nc[t].deviceName] = nc[t].origNs]
                      ELSE linkNs
    /\ UNCHANGED <<engine, pc, args, queries, sleeps, blocked, log, result,
                   loopVars, linkState, threadNs>>

\* step 4, newSetupNamespaceClosureContext(...)
SetupNewClosure(t) ==
    /\ nc[t].pc = "setup_closure"
    /\ \E e \in {Nil, "closure-error"} :
         nc' = [nc EXCEPT ![t] =
              IF e # Nil
              THEN [@ EXCEPT !.pc = "done",
                      !.calls = Append(@, Called(t, "newSetupNamespaceClosureContext", "err")),
                      !.result = Fail("", Wrap(External(e),
                                      "unable to create closure"))]
              ELSE [@ EXCEPT !.pc = "exec",
                      !.closure = "setup",
                      !.calls = Append(@, Called(t, "newSetupNamespaceClosureContext", "ok"))]]
    /\ UNCHANGED <<engine, pc, args, queries, sleeps, blocked, log, result,
                   loopVars, linkNs, linkState, threadNs>>

\* TeardownContainerNamespace up to the scoped execution:
\* newTeardownNamespaceClosureContext(engine.netLink, macAddress)
TeardownContainerNamespace(t) ==
    /\ nc[t].pc = "idle"
    /\ \E netns \in NetnsPaths, device \in Devices, e \in {Nil, "closure-error"} :
         LET c == [IdleCall EXCEPT
                     !.op = "TeardownContainerNamespace",
                     !.deviceName = device,
                     !.netns = netns,
                     !.macAddress = MacOf(device),
                     !.origNs = threadNs[t],
                     !.calls = <<Called(t, "newTeardownNamespaceClosureContext",
                                        IF e = Nil THEN "ok" ELSE "err")>>]
         IN nc' = [nc EXCEPT ![t] =
              IF e # Nil
              THEN [c EXCEPT !.pc = "done",
                      !.result = Fail("", Wrap(External(e),
                                      "unable to create closure"))]
              ELSE [c EXCEPT !.pc = "exec", !.closure = "teardown"]]
    /\ UNCHANGED <<engine, pc, args, queries, sleeps, blocked, log, result,
                   loopVars, linkNs, linkState, threadNs>>

\* engine.ns.WithNetNSPath(netns, toRun.run), first part: resolve the path
\* and enter the namespace, or fail without running the closure
WithNetNSPathEnter(t) ==
    /\ nc[t].pc = "exec"
    /\ \E e \in {Nil, "ns-error"} :
         /\ e = Nil => NsOfPath(nc[t].netns) # Nil
         /\ IF e # Nil
            THEN /\ nc' = [nc EXCEPT ![t] =
                      [@ EXCEPT !.pc = "exec_done", !.execErr = e,
                         !.calls = Append(@, Called(t, "WithNetNSPath", "err"))]]
                 /\ threadNs' = threadNs
            ELSE /\ nc' = [nc EXCEPT ![t] =
                      [@ EXCEPT !.pc = "in_ns", !.scoped = TRUE,
                         !.calls = Append(@, Called(t, "WithNetNSPath", "entered"))]]
                 /\ threadNs' = [threadNs EXCEPT ![t] = NsOfPath(nc[t].netns)]
    /\ UNCHANGED <<engine, pc, args, queries, sleeps, blocked, log, result,
                   loopVars, linkNs, linkState>>

\* what a closure can do: return nil, return an error, or panic
ClosureOutcomes == {"ok", "err", "panic"}

\* the device state after the closure of thread t ran with this outcome in
\* the namespace the thread is in: setup configures the device it finds
\* there, teardown brings it down, a failed closure leaves it as it was
ClosureEffect(t, outcome) ==
    LET device == nc[t].deviceName IN
    IF outcome = "ok" /\ device \in Devices /\ linkNs[device] = threadNs[t]
    THEN [linkState EXCEPT ![device] =
            IF nc[t].closure = "setup" THEN "configured" ELSE "down"]
    ELSE linkState

\* the outcomes the closure of thread t can have where the thread is: setup
\* needs its device there; teardown of a device that is down or absent
\* does nothing
ClosureCanReturn(t) ==
    LET device == nc[t].deviceName
        present == device \in Devices /\ linkNs[device] = threadNs[t]
    IN  IF nc[t].closure = "setup"
        THEN IF present THEN ClosureOutcomes ELSE {"err", "panic"}
        ELSE IF present /\ linkState[device] # "down"
             THEN ClosureOutcomes ELSE {"ok"}

\* the state in which the closure of thread t finds its device in the
\* namespace the thread is in
DeviceFound(t) ==
    IF nc[t].deviceName \in Devices /\ linkNs[nc[t].deviceName] = threadNs[t]
    THEN linkState[nc[t].deviceName] ELSE "absent"

\* toRun.run: the closure runs in the namespace the thread is in
ClosureRun(t) ==
    /\ nc[t].pc = "in_ns"
    /\ \E outcome \in ClosureCanReturn(t) :
         /\ linkState' = ClosureEffect(t, outcome)
         /\ nc' = [nc EXCEPT ![t] =
              [@ EXCEPT !.pc = IF nc[t].scoped THEN "restore" ELSE "exec_done",
                 !.execErr = IF outcome = "ok" THEN Nil ELSE outcome,
                 !.closures = Append(@, [ns |-> threadNs[t],
                                         scoped |-> nc[t].scoped,
                                         found |-> DeviceFound(t),
                                         outcome |-> outcome])]]
    /\ UNCHANGED <<engine, pc, args, queries, sleeps, blocked, log, result,
                   loopVars, linkNs, threadNs>>

\* WithNetNSPath, last part: back to the namespace the thread came from, on
\* every outcome of the closure
WithNetNSPathRestore(t) ==
    /\ nc[t].pc = "restore"
    /\ threadNs' = [threadNs EXCEPT ![t] = nc[t].origNs]
    /\ nc' = [nc EXCEPT ![t] =
         [@ EXCEPT !.pc = "exec_done", !.scoped = FALSE,
            !.calls = Append(@, Called(t, "WithNetNSPath:restored", nc[t].execErr))]]
    /\ UNCHANGED <<engine, pc, args, queries, sleeps, blocked, log, result,
                   loopVars, linkNs, linkState>>

\* the message put in front of the error of WithNetNSPath
ExecWrapMessage(op) ==
    IF op = "SetupContainerNamespace"
    THEN "unable to setup device"
    ELSE "unable to teardown container namespace"

\* the statements after WithNetNSPath with a rollback of the move when the
\* setup closure failed
ExecReturnRollsBack(t) ==
    /\ nc[t].pc = "exec_done"
    /\ nc' = [nc EXCEPT ![t] =
         [@ EXCEPT !.pc = IF nc[t].execErr = "panic" THEN "panicked" ELSE "done",
            !.calls = IF nc[t].op = "SetupContainerNamespace" /\ nc[t].execErr # Nil
                      THEN Append(@, Called(t, "LinkSetNsFd", "ok")) ELSE @,
            !.result = IF nc[t].execErr = "panic" THEN NoResult
                       ELSE IF nc[t].execErr # Nil
                       THEN Fail("", Wrap(External(nc[t].execErr),
                                          ExecWrapMessage(nc[t].op)))
                       ELSE Ok("")]]
    /\ linkNs' = IF nc[t].op = "SetupContainerNamespace" /\ nc[t].execErr # Nil
                 THEN [linkNs EXCEPT ![nc[t].deviceName] = nc[t].origNs]
                 ELSE linkNs
    /\ UNCHANGED <<engine, pc, args, queries, sleeps, blocked, log, result,
                   loopVars, linkState, threadNs>>

\* the statements after WithNetNSPath with the link handed back to the
\* caller's namespace when teardown succeeded
ExecReturnTeardownMovesLinkBack(t) ==
    /\ nc[t].pc = "exec_done"
    /\ nc' = [nc EXCEPT ![t] =
         [@ EXCEPT !.pc = IF nc[t].execErr = "panic" THEN "panicked" ELSE "done",
            !.result = IF nc[t].execErr = "panic" THEN NoResult
                       ELSE IF nc[t].execErr # Nil
                       THEN Fail("", Wrap(External(nc[t].execErr),
                                          ExecWrapMessage(nc[t].op)))
                       ELSE Ok("")]]
    /\ linkNs' = IF nc[t].op = "TeardownContainerNamespace" /\ nc[t].execErr = Nil
                 THEN [linkNs EXCEPT ![nc[t].deviceName] = nc[t].origNs]
                 ELSE linkNs
    /\ UNCHANGED <<engine, pc, args, queries, sleeps, blocked, log, result,
                   loopVars, linkState, threadNs>>

\* the statements after WithNetNSPath, the same in both operations: wrap
\* the error or return nil; a panic of the closure is not caught
ExecReturn(t) ==
    /\ nc[t].pc = "exec_done"
    /\ nc' = [nc EXCEPT ![t] =
         [@ EXCEPT !.pc = IF nc[t].execErr = "panic" THEN "panicked" ELSE "done",
            !.result = IF nc[t].execErr = "panic" THEN NoResult
                       ELSE IF nc[t].execErr # Nil
                       THEN Fail("", Wrap(External(nc[t].execErr),
                                          ExecWrapMessage(nc[t].op)))
                       ELSE Ok("")]]
    /\ UNCHANGED <<engine, pc, args, queries, sleeps, blocked, log, result,
                   loopVars, linkNs, linkState, threadNs>>

\* the caller takes the result; the thread is free for the next call
NextCall(t) ==
    /\ nc[t].pc \in {"done", "panicked"}
    /\ nc' = [nc EXCEPT ![t] = IdleCall]
    /\ UNCHANGED <<engine, pc, args, queries, sleeps, blocked, log, result,
                   loopVars, linkNs, linkState, threadNs>>

(***************************************************************************)
(* Specifications, one per group of operations.  The variables of the      *)
(* other groups stay as they start.                                        *)
(***************************************************************************)
Threads == {"t1"}

InitCall ==
    /\ pc = "idle" /\ args = NoArgs /\ queries = 0 /\ sleeps = 0
    /\ blocked = 0 /\ log = <<>> /\ result = NoResult
    /\ numTicks = 0 /\ routes = <<>> /\ attempts = 0 /\ err = Nil
    /\ addressesResponse = <<>> /\ idx = 0 /\ answer = Nil

InitKernel(threads) ==
    /\ linkNs = [d \in Devices |-> HostNS]
    /\ linkState = [d \in Devices |-> "attached"]
    /\ threadNs = [t \in threads |-> HostNS]
    /\ nc = [t \in threads |-> IdleCall]

\* GetIPV6Gateway
InitGateway ==
    /\ \E ticks \in TickCounts :
         engine = create(ticks, instanceMetadataMaxRetryCount)
    /\ InitCall /\ InitKernel(Threads)
NextGateway == GetIPV6Gateway \/ GatewayTick \/ GatewaySleep \/ GatewayGiveUp
SpecGateway == InitGateway /\ [][NextGateway]_vars

\* DoesMACAddressMapToIPV4Address, DoesMACAddressMapToIPV6Address
InitMap ==
    /\ \E retries \in RetryCounts :
         engine = create(maxTicksForRetrievingIPV6Gateway, retries)
    /\ InitCall /\ InitKernel(Threads)
NextMap ==
    \/ DoesMACAddressMapToIPV4Address
    \/ DoesMACAddressMapToIPV6Address
    \/ MapQueryOk
    \/ MapQueryFail
    \/ MapSleep
SpecMap == InitMap /\ [][NextMap]_vars

\* both retry loops, with each count set by the caller of create; the thread
\* that makes the call runs it to its return, whatever the services answer
InitLoops ==
    /\ \E ticks \in TickCounts, retries \in RetryCounts :
         engine = create(ticks, retries)
    /\ InitCall /\ InitKernel(Threads)
NextLoops ==
    \/ GetIPV6Gateway
    \/ GatewayTick
    \/ GatewaySleep
    \/ GatewayGiveUp
    \/ DoesMACAddressMapToIPV4Address
    \/ DoesMACAddressMapToIPV6Address
    \/ MapQueryOk
    \/ MapQueryFail
    \/ MapSleep
SpecLoops == InitLoops /\ [][NextLoops]_vars
SpecLoopsFair == SpecLoops /\ WF_vars(NextLoops)

\* GetMACAddressOfENI
InitEni == engine = New /\ InitCall /\ InitKernel(Threads)
NextEni == GetMACAddressOfENI \/ EniQuery \/ EniUnmapped
SpecEni == InitEni /\ [][NextEni]_vars

\* GetInterfaceDeviceName
InitLookup == engine = New /\ InitCall /\ InitKernel(Threads)
NextLookup == GetInterfaceDeviceName
SpecLookup == InitLookup /\ [][NextLookup]_vars

\* SetupContainerNamespace, TeardownContainerNamespace: calls one after the
\* other on one thread
InitNs == engine = New /\ InitCall /\ InitKernel(Threads)
NextNs ==
    \/ \E t \in DOMAIN nc : SetupContainerNamespace(t)
    \/ \E t \in DOMAIN nc : SetupGetNS(t)
    \/ \E t \in DOMAIN nc : SetupLinkSetNsFd(t)
    \/ \E t \in DOMAIN nc : SetupNewClosure(t)
    \/ \E t \in DOMAIN nc : TeardownContainerNamespace(t)
    \/ \E t \in DOMAIN nc : WithNetNSPathEnter(t)
    \/ \E t \in DOMAIN nc : ClosureRun(t)
    \/ \E t \in DOMAIN nc : WithNetNSPathRestore(t)
    \/ \E t \in DOMAIN nc : ExecReturn(t)
    \/ \E t \in DOMAIN nc : NextCall(t)
SpecNs == InitNs /\ [][NextNs]_vars

\* Setup, Teardown and device lookup called concurrently on one engine, one
\* caller thread per container: each thread passes its own device, MAC
\* address and namespace path
ConcurrentThreads == {"t1", "t2"}
OwnDevice(t) == IF t = "t1" THEN "eth1" ELSE "eth2"
OwnNetns(t) == IF t = "t1" THEN "/ns/c1" ELSE "/ns/c2"
OwnArguments(t) ==
    \/ nc[t].op = "none"
    \/ /\ nc[t].op = "GetInterfaceDeviceName"
       /\ ParseMAC(nc[t].macAddress).hw
             \in {NoHardwareAddr, ParseMAC(MacOf(OwnDevice(t))).hw}
    \/ /\ nc[t].op \in {"SetupContainerNamespace", "TeardownContainerNamespace"}
       /\ nc[t].deviceName = OwnDevice(t)
       /\ nc[t].netns = OwnNetns(t)

InitConcurrent == engine = New /\ InitCall /\ InitKernel(ConcurrentThreads)
NextConcurrent ==
    \/ \E t \in DOMAIN nc : SetupContainerNamespace(t) /\ OwnArguments(t)'
    \/ \E t \in DOMAIN nc : TeardownContainerNamespace(t) /\ OwnArguments(t)'
    \/ \E t \in DOMAIN nc : GetInterfaceDeviceNameOn(t) /\ OwnArguments(t)'
    \/ \E t \in DOMAIN nc : SetupGetNS(t)
    \/ \E t \in DOMAIN nc : SetupLinkSetNsFd(t)
    \/ \E t \in DOMAIN nc : SetupNewClosure(t)
    \/ \E t \in DOMAIN nc : WithNetNSPathEnter(t)
    \/ \E t \in DOMAIN nc : ClosureRun(t)
    \/ \E t \in DOMAIN nc : WithNetNSPathRestore(t)
    \/ \E t \in DOMAIN nc : ExecReturn(t)
    \/ \E t \in DOMAIN nc : NextCall(t)
SpecConcurrent == InitConcurrent /\ [][NextConcurrent]_vars

(***************************************************************************)
(* Properties of GetIPV6Gateway (SpecGateway).                             *)
(***************************************************************************)
\* positions of the log with this call and outcome
LogPositions(name, outcome) ==
    {i \in 1..Len(log) : log[i] = <<name, outcome>>}
\* positions of the log with this call, whatever the outcome
LogCalls(name) == {i \in 1..Len(log) : log[i][1] = name}

GatewayCall == args.op = "GetIPV6Gateway"
GatewayDone == GatewayCall /\ pc = "done"
ConfiguredTicks == Max(engine.maxTicksForRetrievingIPV6Gateway, 0)

\* a default route, as section 4.3 defines it
DefaultRoute(route) ==
    route.Dst = NilNet /\ route.Src = NoIP /\ route.Gw # NoIP
HasDefaultRoute(rs) == \E i \in 1..Len(rs) : DefaultRoute(rs[i])
FirstDefaultRoute(rs) ==
    rs[CHOOSE i \in 1..Len(rs) :
          DefaultRoute(rs[i]) /\ \A j \in 1..(i - 1) : ~DefaultRoute(rs[j])]

\* C3: a call whose every route listing succeeds without a default route
\* issues exactly maxTicks route-list queries and then fails with the
\* gateway-not-found error; no call issues more than maxTicks queries, and
\* gateway-not-found is never returned after fewer than maxTicks queries.
C3_ExhaustsMaxTicks ==
    GatewayCall =>
        /\ queries <= ConfiguredTicks
        /\ queries = Cardinality(LogCalls("RouteList"))
        /\ (pc = "done" /\ result.err.kind = "GatewayNotFound")
              => /\ queries = ConfiguredTicks
                 /\ Cardinality(LogPositions("RouteList", "none")) = queries
        /\ (/\ pc = "done"
            /\ log[1] = <<"LinkByName", "ok">>
            /\ LogPositions("RouteList", "err") = {}
            /\ LogPositions("RouteList", "default") = {})
              => /\ result.err.kind = "GatewayNotFound"
                 /\ result.val = ""
                 /\ queries = ConfiguredTicks

C3_Witness ==
    /\ GatewayDone
    /\ result.err.kind = "GatewayNotFound"
    /\ queries = engine.maxTicksForRetrievingIPV6Gateway
    /\ queries >= 2

\* C4 as stated: a sleep happens only between two attempts, so a call never
\* ends on a sleep and a run that exhausts all ticks sleeps maxTicks - 1
\* times.
C4_SleepOnlyBetweenAttempts ==
    GatewayDone =>
        /\ Len(log) > 0 => log[Len(log)] # <<"Sleep", "">>
        /\ (result.err.kind = "GatewayNotFound" /\ ConfiguredTicks >= 1)
              => sleeps = ConfiguredTicks - 1

\* C4, amended: a sleep follows every attempt that found no default route,
\* the last one included, and nothing else: no sleep follows an attempt that
\* found a default route or whose query failed.  A run that exhausts all
\* ticks performs exactly maxTicks sleeps.
C4_SleepAfterEveryMiss ==
    GatewayCall =>
        /\ sleeps = Cardinality(LogCalls("Sleep"))
        /\ blocked = sleeps * engine.ipv6GatewayTickDuration
        /\ \A i \in LogCalls("Sleep") :
              i > 1 /\ log[i - 1] = <<"RouteList", "none">>
        /\ \A i \in LogPositions("RouteList", "none") :
              IF i < Len(log) THEN log[i + 1] = <<"Sleep", "">>
              ELSE pc = "gw_sleep"
        /\ \A i \in LogPositions("RouteList", "default")
                     \cup LogPositions("RouteList", "err") :
              i = Len(log) /\ pc = "done"
        /\ (pc = "done" /\ result.err.kind = "GatewayNotFound")
              => /\ sleeps = ConfiguredTicks
                 /\ (sleeps > 0 => log[Len(log)] = <<"Sleep", "">>)

C4_Witness ==
    /\ GatewayDone
    /\ result.err.kind = "GatewayNotFound"
    /\ sleeps = engine.maxTicksForRetrievingIPV6Gateway
    /\ sleeps >= 2
    /\ log[Len(log)] = <<"Sleep", "">>

\* C5: the call returns on the first tick whose listing contains a default
\* route, with the gateway of that route and no error; nothing is queried
\* and no sleep is made after that tick, and every tick before it found no
\* default route.
C5_ReturnsOnFirstDefaultRoute ==
    GatewayCall =>
        /\ \A i \in LogPositions("RouteList", "default") :
              /\ i = Len(log)
              /\ pc = "done"
              /\ HasDefaultRoute(routes)
              /\ result = Ok(IPString(FirstDefaultRoute(routes).Gw))
              /\ \A j \in LogCalls("RouteList") \ {i} :
                    log[j] = <<"RouteList", "none">>
              /\ sleeps = queries - 1
        /\ pc = "gw_sleep" => ~HasDefaultRoute(routes)
        /\ (pc = "done" /\ queries > 0 /\ HasDefaultRoute(routes))
              => log[Len(log)] = <<"RouteList", "default">>
        /\ (pc = "done" /\ result.err = NoErr)
              => log[Len(log)] = <<"RouteList", "default">>

C5_Witness ==
    /\ GatewayDone
    /\ result.err = NoErr
    /\ result.val = "fe80::2"
    /\ queries >= 2
    /\ Len(routes) = 2
    /\ ~DefaultRoute(routes[1])

\* C6: a failed route-table query ends the call at once with an error: no
\* tick and no sleep follows it; only a listing that succeeded and holds no
\* default route is followed by another attempt.
C6_QueryFailureAborts ==
    GatewayCall =>
        /\ \A i \in LogPositions("RouteList", "err") :
              /\ i = Len(log)
              /\ pc = "done"
              /\ result.val = ""
              /\ result.err.kind = "external"
              /\ result.err.cause \in NetlinkErrors
              /\ queries = Cardinality(LogCalls("RouteList"))
        /\ \A i \in LogCalls("RouteList") :
              i < Len(log) => log[i] = <<"RouteList", "none">>

C6_Witness ==
    /\ GatewayDone
    /\ log[Len(log)] = <<"RouteList", "err">>
    /\ queries >= 2
    /\ queries < engine.maxTicksForRetrievingIPV6Gateway
    /\ sleeps = queries - 1

\* the last step of the call listed the routes now in the variable routes
RoutesListed ==
    /\ GatewayCall
    /\ Len(log) > 1
    /\ log[Len(log)] \in {<<"RouteList", "default">>, <<"RouteList", "none">>}

\* C16: one pass over a route listing reports a gateway exactly when the
\* listing holds a route with no destination, no source and a gateway that
\* is set; the gateway reported is that of the first such route in the
\* listing, and a pass that reports none returns the empty string and no
\* error.
C16_OnceFindsFirstDefaultRoute ==
    RoutesListed =>
        LET once == getIPV6GatewayIPFromRoutesOnce([err |-> Nil,
                                                    routes |-> routes])
        IN /\ once.err = NoErr
           /\ once.ok <=> HasDefaultRoute(routes)
           /\ once.ok <=> log[Len(log)] = <<"RouteList", "default">>
           /\ once.ok =>
                 /\ once.gateway = IPString(FirstDefaultRoute(routes).Gw)
                 /\ once.gateway # zeroLengthIPString
                 /\ result = Ok(once.gateway)
                 /\ \E i \in 1..Len(routes) :
                       /\ routes[i].Dst = NilNet
                       /\ routes[i].Src = NoIP
                       /\ routes[i].Gw # NoIP
                       /\ IPString(routes[i].Gw) = once.gateway
           /\ ~once.ok =>
                 /\ once.gateway = ""
                 /\ pc = "gw_sleep"
                 /\ \A i \in 1..Len(routes) :
                       \/ routes[i].Dst # NilNet
                       \/ routes[i].Src # NoIP
                       \/ routes[i].Gw = NoIP

C16_Witness ==
    /\ RoutesListed
    /\ pc = "done"
    /\ routes = <<[Dst |-> NilNet, Src |-> 2, Gw |-> 1],
                  [Dst |-> NilNet, Src |-> NoIP, Gw |-> 2]>>
    /\ result = Ok("fe80::2")

(***************************************************************************)
(* Properties of DoesMACAddressMapToIPV4Address and                        *)
(* DoesMACAddressMapToIPV6Address (SpecMap).                               *)
(***************************************************************************)
MapCall ==
    args.op \in {"DoesMACAddressMapToIPV4Address",
                 "DoesMACAddressMapToIPV6Address"}
MapDone == MapCall /\ pc = "done"

\* C7: with a retry count N >= 1, a call whose query fails on attempts
\* 1..N-1 and succeeds on attempt N returns no error; a call returns an
\* error only when all N attempts failed, after exactly N queries, and the
\* error wraps the error of the last attempt.
C7_RetriesUntilExhausted ==
    (MapCall /\ engine.metadataMaxRetryCount >= 1) =>
        /\ queries <= engine.metadataMaxRetryCount
        /\ queries = Cardinality(LogCalls("GetMetadata"))
        /\ (pc = "done" /\ answer = "ok")
              => /\ result.err = NoErr
                 /\ LogPositions("GetMetadata", "ok") = {Len(log)}
        /\ (pc = "done" /\ result.err # NoErr)
              => /\ queries = engine.metadataMaxRetryCount
                 /\ Cardinality(LogPositions("GetMetadata", "err")) = queries
                 /\ answer \in MetadataErrors
                 /\ result.err.cause = answer
                 /\ result.err.wraps = <<MapWrapMessage(args.op),
                                         "querying metadata path">>
                 /\ result.val = FALSE
        /\ pc # "done" => LogPositions("GetMetadata", "ok") = {}

C7_Witness ==
    /\ MapDone
    /\ engine.metadataMaxRetryCount >= 2
    /\ queries = engine.metadataMaxRetryCount
    /\ Cardinality(LogPositions("GetMetadata", "err")) = queries - 1
    /\ result.err = NoErr

\* str is one of the entries of the response: it stands between two
\* newlines, or between a newline and an end of the response, or it is the
\* whole response, and it holds no newline itself
IsEntry(response, str) ==
    \E i \in 1..(Len(response) + 1) :
        LET j == i - 1 + Len(str) IN
        /\ j <= Len(response)
        /\ \A k \in 1..Len(str) : response[i - 1 + k] = str[k] /\ str[k] # "\n"
        /\ i = 1 \/ response[i - 1] = "\n"
        /\ j = Len(response) \/ response[j + 1] = "\n"

\* positions of the log at which GetMetadata was called
MetadataQueries == LogCalls("GetMetadata")

\* C15: only a failed metadata query is followed by another one: a query
\* that succeeds is the last of its call, and every query but the first
\* comes right after a failed query and one sleep; the call then returns
\* true exactly when the address is one of the newline-separated entries of
\* that response, and (false, no error) when it is not, with no further
\* query and no further sleep.
C15_OnlyFailuresRetried ==
    MapCall =>
        /\ \A i \in LogPositions("GetMetadata", "ok") :
              i = Len(log) /\ pc = "done"
        /\ \A i \in MetadataQueries :
              i > 1 => /\ i >= 3
                       /\ log[i - 1] = <<"Sleep", "">>
                       /\ log[i - 2] = <<"GetMetadata", "err">>
        /\ (pc = "done" /\ answer = "ok") =>
              /\ result = Ok(IsEntry(addressesResponse, args.addressToFind))
              /\ result.err = NoErr
              /\ queries = Cardinality(LogPositions("GetMetadata", "err")) + 1
              /\ sleeps = queries - 1
        /\ (pc = "done" /\ result.err = NoErr) => answer = "ok"

C15_Witness ==
    /\ MapDone
    /\ answer = "ok"
    /\ args.addressToFind = <<"a">>
    /\ addressesResponse = <<"a", "b">>
    /\ result = Ok(FALSE)
    /\ queries = 2
    /\ engine.metadataMaxRetryCount = 3

(***************************************************************************)
(* Properties of the two retry loops together (SpecLoops, SpecLoopsFair).  *)
(***************************************************************************)
\* the attempt count of the loop of the call in progress, a count below
\* zero taken as zero
ConfiguredAttempts ==
    IF GatewayCall THEN Max(engine.maxTicksForRetrievingIPV6Gateway, 0)
    ELSE Max(engine.metadataMaxRetryCount, 0)
\* the interval of the loop of the call in progress
ConfiguredInterval ==
    IF GatewayCall THEN engine.ipv6GatewayTickDuration
    ELSE engine.metadataDurationBetweenRetries

\* the sleeps of a call are those of its log, they do not exceed its
\* attempt count, and the call has blocked for one interval per sleep
SleepsBounded ==
    (GatewayCall \/ MapCall) =>
        /\ sleeps = Cardinality(LogCalls("Sleep"))
        /\ sleeps <= ConfiguredAttempts
        /\ blocked = sleeps * ConfiguredInterval
        /\ blocked <= ConfiguredAttempts * ConfiguredInterval
        /\ MapCall => sleeps <= Max(engine.metadataMaxRetryCount - 1, 0)
        /\ MapCall => queries <= Max(engine.metadataMaxRetryCount, 1)
        /\ GatewayCall => queries <= ConfiguredAttempts

\* C18: whatever the route table and the metadata service answer, a call of
\* either retry loop returns, and it never sleeps more often than its
\* configured attempt count: at most metadataMaxRetryCount sleeps in the
\* metadata loop and at most maxTicks sleeps in the gateway loop, so that it
\* blocks for at most that many intervals.
C18_LoopsTerminate ==
    /\ []SleepsBounded
    /\ (pc # "idle") ~> (pc = "done")

C18_Witness ==
    /\ GatewayDone
    /\ engine.maxTicksForRetrievingIPV6Gateway = 3
    /\ sleeps = 3
    /\ blocked = 3 * engine.ipv6GatewayTickDuration
    /\ result.err.kind = "GatewayNotFound"

\* C19: with maxTicks <= 0 a gateway call makes no route-list query and no
\* sleep and, its link found, fails with the gateway-not-found error; with
\* metadataMaxRetryCount <= 1, zero and negative counts included, a
\* secondary-address call makes exactly one metadata query and no sleep, and
\* returns what that query gave.
C19_NonPositiveCounts ==
    /\ (GatewayCall /\ engine.maxTicksForRetrievingIPV6Gateway <= 0) =>
          /\ queries = 0
          /\ sleeps = 0
          /\ LogCalls("RouteList") = {}
          /\ pc \in {"gw_loop", "done"}
          /\ (pc = "done" /\ log[1] = <<"LinkByName", "ok">>)
                => result = Fail("", NewError("GatewayNotFound"))
    /\ (MapCall /\ engine.metadataMaxRetryCount <= 1) =>
          /\ sleeps = 0
          /\ pc \in {"map_query", "done"}
          /\ queries = IF pc = "done" THEN 1 ELSE 0
          /\ Cardinality(LogCalls("GetMetadata")) = queries
          /\ (pc = "done" /\ answer \in MetadataErrors)
                => /\ result.err.cause = answer
                   /\ result.val = FALSE
          /\ (pc = "done" /\ answer = "ok") => result.err = NoErr

C19_Witness ==
    /\ MapDone
    /\ engine.metadataMaxRetryCount = -1
    /\ engine.maxTicksForRetrievingIPV6Gateway = 0
    /\ queries = 1
    /\ sleeps = 0
    /\ answer \in MetadataErrors
    /\ result.err # NoErr

(***************************************************************************)
(* Properties of GetMACAddressOfENI (SpecEni).                             *)
(***************************************************************************)
EniCall == args.op = "GetMACAddressOfENI"
EniDone == EniCall /\ pc = "done"

\* the candidates whose interface-id query is answered with the target
MatchingCandidates ==
    {i \in 1..Len(args.macAddresses) : args.interfaceIDs[i] = args.eniID}
FirstMatchingCandidate ==
    CHOOSE i \in MatchingCandidates : \A j \in MatchingCandidates : i <= j
\* a string without its trailing '/'
TrimSlash(str) ==
    IF Len(str) > 0 /\ str[Len(str)] = "/"
    THEN SubSeq(str, 1, Len(str) - 1) ELSE str

\* C8: for every candidate list and target, the call returns the first
\* candidate in list order whose interface-id query succeeds with the
\* target, without its trailing '/', and fails with UnmappedMACAddress
\* exactly when no candidate has such a query.
C8_ReturnsFirstMatch ==
    EniDone =>
        IF MatchingCandidates = {}
        THEN result = Fail(<<>>, NewError("UnmappedMACAddress"))
        ELSE result = Ok(TrimSlash(args.macAddresses[FirstMatchingCandidate]))

C8_Witness ==
    /\ EniDone
    /\ Cardinality(MatchingCandidates) >= 2
    /\ FirstMatchingCandidate >= 2
    /\ args.macAddresses[FirstMatchingCandidate] = <<"b", "/">>
    /\ result = Ok(<<"b">>)

\* C9: a failed interface-id query never ends the call: the scan goes on
\* with the next candidate, a match that comes after failed queries is
\* returned, and the only error of the call is UnmappedMACAddress at the end
\* of the list.
C9_QueryFailureSkipped ==
    EniCall =>
        /\ (answer \in MetadataErrors /\ pc # "done")
              => pc = "eni_scan" /\ idx = queries + 1 /\ ~result.set
        /\ (pc = "done" /\ result.err # NoErr)
              => /\ result.err = NewError("UnmappedMACAddress")
                 /\ queries = Len(args.macAddresses)
                 /\ idx = Len(args.macAddresses) + 1
        /\ \A j \in 1..Len(args.macAddresses) :
              (/\ pc = "done"
               /\ args.interfaceIDs[j] = args.eniID
               /\ \A k \in 1..(j - 1) : args.interfaceIDs[k] \in MetadataErrors)
                  => /\ result = Ok(TrimSlash(args.macAddresses[j]))
                     /\ queries = j

C9_Witness ==
    /\ EniDone
    /\ result.err = NoErr
    /\ queries = 3
    /\ args.interfaceIDs[1] \in MetadataErrors
    /\ args.interfaceIDs[2] \in MetadataErrors

\* C17: the candidates are queried one at a time in list order: the i-th
\* query of a call is the interface-id query of the i-th candidate, the
\* query of the candidate that is returned is the last one, never more
\* queries are made than there are candidates, and a call that fails with
\* UnmappedMACAddress has queried every candidate once.
C17_OneQueryPerCandidate ==
    EniCall =>
        /\ queries = Len(log)
        /\ queries <= Len(args.macAddresses)
        /\ \A i \in 1..Len(log) :
              log[i] = <<"GetMetadata", args.interfaceIDs[i],
                         args.macAddresses[i]>>
        /\ pc = "eni_scan" => queries = idx - 1
        /\ (pc = "done" /\ result.err = NoErr) =>
              /\ queries = FirstMatchingCandidate
              /\ log[queries][2] = args.eniID
              /\ result.val = TrimSlash(log[queries][3])
              /\ \A i \in 1..(queries - 1) : log[i][2] # args.eniID
        /\ (pc = "done" /\ result.err # NoErr) =>
              /\ result.err.kind = "UnmappedMACAddress"
              /\ queries = Len(args.macAddresses)

C17_Witness ==
    /\ EniDone
    /\ result.err = NoErr
    /\ Len(args.macAddresses) = 3
    /\ queries = 2
    /\ args.interfaceIDs[1] \in ENIIDs
    /\ args.interfaceIDs[3] = args.eniID

(***************************************************************************)
(* Properties of SetupContainerNamespace and TeardownContainerNamespace    *)
(* (SpecNs).                                                               *)
(***************************************************************************)
\* positions in the calls of thread t of this call with this outcome
CallPositions(t, name, outcome) ==
    {i \in 1..Len(nc[t].calls) :
        nc[t].calls[i][1] = name /\ nc[t].calls[i][2] = outcome}
\* the collaborator calls that make up the scoped execution
ScopedCalls == {"WithNetNSPath", "WithNetNSPath:restored"}
LastCall(t) == nc[t].calls[Len(nc[t].calls)]

\* C1: when LinkSetNsFd fails, the call is over with an error and the
\* closure was never executed: the call made no WithNetNSPath call.
C1_MoveFailureSkipsClosure ==
    \A t \in DOMAIN nc :
        CallPositions(t, "LinkSetNsFd", "err") # {} =>
            /\ nc[t].pc = "done"
            /\ nc[t].result.set
            /\ nc[t].result.err.kind = "external"
            /\ nc[t].result.err.cause \in NetlinkErrors
            /\ nc[t].result.err.wraps = <<"unable to move device">>
            /\ nc[t].closures = <<>>
            /\ \A i \in 1..Len(nc[t].calls) :
                  nc[t].calls[i][1] \notin ScopedCalls
            /\ LastCall(t)[1] = "LinkSetNsFd"

C1_Witness ==
    \E t \in DOMAIN nc :
        /\ CallPositions(t, "LinkSetNsFd", "err") # {}
        /\ nc[t].pc = "done"
        /\ nc[t].op = "SetupContainerNamespace"

\* the scoped execution of thread t failed after its move succeeded
SetupExecFailed(t) ==
    /\ nc[t].op = "SetupContainerNamespace"
    /\ CallPositions(t, "LinkSetNsFd", "ok") # {}
    /\ nc[t].execErr # Nil

\* C2: when the move succeeded and the scoped execution of the closure
\* fails, Setup returns an error and the device is still assigned to the
\* container namespace: the call does nothing after the failure.
C2_NoRollback ==
    \A t \in DOMAIN nc :
        SetupExecFailed(t) =>
            /\ linkNs[nc[t].deviceName] = nc[t].containerNS
            /\ linkNs[nc[t].deviceName] # nc[t].origNs
            /\ LastCall(t)[1] \in ScopedCalls
            /\ nc[t].pc = "done"
                  => /\ nc[t].result.err.kind = "external"
                     /\ nc[t].result.err.cause = nc[t].execErr
                     /\ nc[t].result.err.wraps = <<"unable to setup device">>

C2_Witness ==
    \E t \in DOMAIN nc :
        /\ SetupExecFailed(t)
        /\ nc[t].pc = "done"
        /\ Len(nc[t].closures) = 1
        /\ nc[t].closures[1].outcome = "err"
        /\ linkNs[nc[t].deviceName] = "c1"
        /\ linkState[nc[t].deviceName] # "configured"

\* C10: when a Setup or Teardown call is over, however its closure ended,
\* the calling thread is in the namespace it was in before the call; the
\* closure runs only inside WithNetNSPath, in the target namespace, and
\* every other collaborator call is made in the caller's namespace.
C10_NamespaceRestored ==
    \A t \in DOMAIN nc :
        /\ nc[t].pc \in {"done", "panicked"} => threadNs[t] = nc[t].origNs
        /\ nc[t].pc = "idle" => threadNs[t] = HostNS
        /\ threadNs[t] # HostNS => nc[t].pc \in {"in_ns", "restore"}
        /\ nc[t].pc = "in_ns" => nc[t].scoped
        /\ \A i \in 1..Len(nc[t].closures) :
              /\ nc[t].closures[i].scoped
              /\ nc[t].closures[i].ns = NsOfPath(nc[t].netns)
        /\ Len(nc[t].closures) <= 1
        /\ \A i \in 1..Len(nc[t].calls) :
              nc[t].calls[i][1] # "WithNetNSPath:restored"
                  => nc[t].calls[i][3] = nc[t].origNs

C10_Witness ==
    \E t \in DOMAIN nc :
        /\ nc[t].pc = "panicked"
        /\ threadNs[t] = nc[t].origNs
        /\ Len(nc[t].closures) = 1
        /\ nc[t].closures[1].outcome = "panic"
        /\ nc[t].closures[1].ns = "c2"

(***************************************************************************)
(* Properties of GetInterfaceDeviceName (SpecLookup).                      *)
(***************************************************************************)
LookupDone == args.op = "GetInterfaceDeviceName" /\ pc = "done"

\* the MAC address strings that denote an address, whatever the spelling,
\* and the address they denote
WellFormedMacs == {"0a:1b", "0A:1B", "0a-1b", "0a:2c", "0a:3d"}
AddressOf(macAddress) ==
    IF macAddress = "0a:2c" THEN 2 ELSE IF macAddress = "0a:3d" THEN 3 ELSE 1
\* the positions of the listing whose link has the address of the string
LinksWithAddress ==
    {i \in 1..Len(args.links) :
        args.links[i].HardwareAddr = AddressOf(args.macAddress)}

\* C12: for an unparsable MAC the call fails with a malformed-address error
\* and enumerates no link; for a parsable MAC it returns the name of the
\* first link of the enumeration whose hardware address equals the parsed
\* MAC, and it fails with device-not-found exactly when no link has it.
C12_FirstLinkWithAddress ==
    LookupDone =>
        IF args.macAddress \notin WellFormedMacs
        THEN /\ result.val = ""
             /\ result.err.kind = "external"
             /\ result.err.wraps = <<"malformatted mac address specified">>
             /\ queries = 0
             /\ LogCalls("LinkList") = {}
        ELSE /\ queries = 1
             /\ LogCalls("LinkList") # {}
             /\ IF LinksWithAddress = {}
                THEN /\ result.val = ""
                     /\ result.err.kind = "DeviceNotFound"
                ELSE /\ result.err = NoErr
                     /\ \E i \in LinksWithAddress :
                           /\ \A j \in LinksWithAddress : i <= j
                           /\ result.val = args.links[i].Name

C12_Witness ==
    /\ LookupDone
    /\ args.macAddress = "0A:1B"
    /\ Cardinality(LinksWithAddress) >= 2
    /\ args.links[1].HardwareAddr = 2
    /\ result = Ok("eth1.5")
    /\ \E i \in LinksWithAddress : args.links[i].Name = "eth1"

\* the closure of the teardown call of thread t ran on a device that an
\* earlier call had brought down
SecondTeardown(t) ==
    /\ nc[t].op = "TeardownContainerNamespace"
    /\ Len(nc[t].closures) = 1
    /\ nc[t].closures[1].found = "down"

SetupSteps == <<"LinkByName", "GetNS", "LinkSetNsFd",
                "newSetupNamespaceClosureContext", "WithNetNSPath">>

\* the steps thread t has taken: its calls without the record of the return
\* of WithNetNSPath
RECURSIVE StepsOf(_)
StepsOf(calls) ==
    IF calls = <<>> THEN <<>>
    ELSE (IF Head(calls)[1] = "WithNetNSPath:restored" THEN <<>>
          ELSE <<Head(calls)>>) \o StepsOf(Tail(calls))

StepSucceeded(call) == call[2] \in {"ok", "entered"}

\* the steps of the Setup call of thread t are the first steps of
\* SetupSteps in that order, each taken once, and only the last can have
\* failed
SetupInOrder(t) ==
    LET steps == StepsOf(nc[t].calls) IN
    /\ Len(steps) <= Len(SetupSteps)
    /\ \A i \in 1..Len(steps) : steps[i][1] = SetupSteps[i]
    /\ \A i \in 1..(Len(steps) - 1) : StepSucceeded(steps[i])
    /\ Len(nc[t].closures) > 0 =>
          /\ Len(steps) = Len(SetupSteps)
          /\ StepSucceeded(steps[Len(steps)])
    /\ (Len(steps) > 0 /\ ~StepSucceeded(steps[Len(steps)])) =>
          /\ nc[t].pc \in {"done", "exec_done"}
          /\ nc[t].pc = "done" => nc[t].result.err # NoErr

\* the Setup call of thread t returned success
SetupSucceeded(t) ==
    /\ nc[t].op = "SetupContainerNamespace"
    /\ nc[t].pc = "done"
    /\ nc[t].result.err = NoErr

\* the Setup call of thread t failed in its link lookup or its
\* namespace-handle resolution
SetupFailedBeforeMove(t) ==
    /\ nc[t].op = "SetupContainerNamespace"
    /\ \/ CallPositions(t, "LinkByName", "err") # {}
       \/ CallPositions(t, "GetNS", "err") # {}

SetupStepsInOrder ==
    \A t \in DOMAIN nc :
        nc[t].op = "SetupContainerNamespace" =>
            /\ SetupInOrder(t)
            /\ SetupSucceeded(t) =>
                  /\ Len(StepsOf(nc[t].calls)) = Len(SetupSteps)
                  /\ \A i \in 1..Len(SetupSteps) :
                        StepSucceeded(StepsOf(nc[t].calls)[i])
                  /\ nc[t].closures # <<>>
                  /\ nc[t].closures[1].outcome = "ok"
                  /\ nc[t].closures[1].found # "absent"
                  /\ nc[t].closures[1].ns = nc[t].containerNS
                  /\ linkNs[nc[t].deviceName] = nc[t].containerNS
            /\ SetupFailedBeforeMove(t) =>
                  /\ nc[t].pc = "done"
                  /\ nc[t].result.err.kind = "external"
                  /\ nc[t].result.err.wraps \in
                        {<<"unable to get link">>,
                         <<"unable to get network namespace">>}
                  /\ CallPositions(t, "LinkSetNsFd", "ok") = {}
                  /\ CallPositions(t, "LinkSetNsFd", "err") = {}
                  /\ nc[t].closures = <<>>
                  /\ CallPositions(t, "GetNS", "err") # {}
                        => linkNs[nc[t].deviceName] = HostNS

\* C14: SetupContainerNamespace takes its steps in the order link lookup,
\* namespace-handle resolution, link move, closure construction, scoped
\* closure execution, and stops at the first step that fails; it returns
\* success only when every step succeeded and the device was in the
\* container namespace when the closure ran; when the link lookup or the
\* namespace resolution fails it returns an error, no move is attempted, no
\* closure runs, and no step taken while the failed call stands changes
\* where a device is.
C14_SetupStepOrder ==
    /\ []SetupStepsInOrder
    /\ [][\A t \in DOMAIN nc :
             SetupFailedBeforeMove(t)' =>
                 linkNs' = linkNs /\ linkState' = linkState]_vars

C14_Witness ==
    \E t \in DOMAIN nc :
        /\ SetupFailedBeforeMove(t)
        /\ CallPositions(t, "LinkByName", "ok") # {}
        /\ CallPositions(t, "GetNS", "err") # {}
        /\ nc[t].deviceName = "eth1"
        /\ nc[t].netns = "/ns/c1"
        /\ linkNs["eth1"] = HostNS

\* the construction of the setup closure of thread t failed after its move
\* succeeded
SetupClosureFailed(t) ==
    /\ nc[t].op = "SetupContainerNamespace"
    /\ CallPositions(t, "LinkSetNsFd", "ok") # {}
    /\ CallPositions(t, "newSetupNamespaceClosureContext", "err") # {}

\* C20: when the construction of the setup closure fails after the move
\* succeeded, Setup returns an error, WithNetNSPath is not called and no
\* closure runs, and the device stays in the container namespace, as the
\* move left it.
C20_ClosureFailureNoRollback ==
    \A t \in DOMAIN nc :
        SetupClosureFailed(t) =>
            /\ nc[t].pc = "done"
            /\ nc[t].result.set
            /\ nc[t].result.err.kind = "external"
            /\ nc[t].result.err.cause = "closure-error"
            /\ nc[t].result.err.wraps = <<"unable to create closure">>
            /\ LastCall(t)[1] = "newSetupNamespaceClosureContext"
            /\ \A i \in 1..Len(nc[t].calls) :
                  nc[t].calls[i][1] \notin ScopedCalls
            /\ nc[t].closures = <<>>
            /\ ~nc[t].scoped
            /\ threadNs[t] = nc[t].origNs
            /\ linkNs[nc[t].deviceName] = nc[t].containerNS
            /\ linkNs[nc[t].deviceName] # nc[t].origNs
            /\ linkState[nc[t].deviceName] = "attached"

C20_Witness ==
    \E t \in DOMAIN nc :
        /\ SetupClosureFailed(t)
        /\ nc[t].pc = "done"
        /\ nc[t].deviceName = "eth2"
        /\ linkNs["eth2"] = "c1"
        /\ linkNs["eth1"] = HostNS

(***************************************************************************)
(* Properties of concurrent calls on one engine (SpecConcurrent).          *)
(***************************************************************************)
\* what belongs to the call of thread t: its call state, the namespace its
\* thread is in, and the namespace and state of its device
Footprint(t) ==
    <<nc[t], threadNs[t], linkNs[OwnDevice(t)], linkState[OwnDevice(t)]>>

\* the steps of the call of thread t that failed
FailedCalls(t) == {i \in 1..Len(nc[t].calls) : nc[t].calls[i][2] = "err"}

\* the links thread t finds on the host when it runs alone
LinksAlone(t) ==
    IF linkNs[OwnDevice(t)] = HostNS
    THEN <<[Name |-> OwnDevice(t),
            HardwareAddr |-> ParseMAC(MacOf(OwnDevice(t))).hw]>>
    ELSE <<>>

\* the call of thread t stands as it does when it runs alone: its result
\* follows from its arguments and from the answers to its own collaborator
\* calls, and its device is where its own move put it
AsWhenAlone(t) ==
    /\ linkNs[OwnDevice(t)] \in {HostNS, NsOfPath(OwnNetns(t))}
    /\ nc[t].op = "SetupContainerNamespace" =>
          /\ CallPositions(t, "LinkSetNsFd", "ok") # {}
                => linkNs[OwnDevice(t)] = NsOfPath(OwnNetns(t))
          /\ (/\ CallPositions(t, "LinkByName", "ok") # {}
              /\ CallPositions(t, "LinkSetNsFd", "ok") = {})
                => linkNs[OwnDevice(t)] = HostNS
          /\ CallPositions(t, "LinkByName", "err") # {}
                => nc[t].result.err.cause
                     \in LinkByNameAnswers(t, OwnDevice(t)) \ {Nil}
    /\ (nc[t].pc = "done" /\ nc[t].op = "GetInterfaceDeviceName")
          => nc[t].result = InterfaceDeviceName(nc[t].macAddress, LinksAlone(t))
    /\ (/\ nc[t].pc = "done"
        /\ nc[t].op \in {"SetupContainerNamespace", "TeardownContainerNamespace"})
          => /\ nc[t].result.err = NoErr
                   <=> /\ FailedCalls(t) = {}
                       /\ Len(nc[t].closures) = 1
                       /\ nc[t].closures[1].outcome = "ok"
             /\ nc[t].result.err = NoErr
                   => linkState[OwnDevice(t)] =
                        IF nc[t].op = "SetupContainerNamespace"
                        THEN "configured"
                        ELSE IF linkNs[OwnDevice(t)] = HostNS
                             THEN "attached" ELSE "down"
    /\ nc[t].pc \in {"idle", "done", "panicked"} => threadNs[t] = HostNS

\* C11: calls running concurrently on one engine for independent containers
\* do not interfere.  No step changes the counts and durations of the
\* engine; a step changes the footprint of one thread only, the one that
\* takes it; and in every interleaving each call's result and the namespace
\* of each device are those the call produces when it runs alone.
C11_NoInterference ==
    [][/\ engine' = engine
       /\ engine' = New
       /\ \A t \in DOMAIN nc :
            nc'[t] = nc[t] => Footprint(t)' = Footprint(t)
       /\ \A t \in DOMAIN nc : AsWhenAlone(t)']_vars

C11_Witness ==
    /\ DOMAIN nc = ConcurrentThreads
    /\ nc["t1"].op = "SetupContainerNamespace"
    /\ nc["t1"].pc = "in_ns"
    /\ threadNs["t1"] = "c1"
    /\ nc["t2"].op = "SetupContainerNamespace"
    /\ nc["t2"].pc = "done"
    /\ nc["t2"].result.err = NoErr
    /\ threadNs["t2"] = HostNS
    /\ linkNs = [d \in Devices |-> IF d = "eth1" THEN "c1" ELSE "c2"]

====
